---------------------------- MODULE Spec2Model ----------------------------
(***************************************************************************)
(* SettingsFile (include/SettingsFile.h) is an abstract interface: every   *)
(* operation is pure virtual and its behaviour is fixed by the header's    *)
(* documentation (@retval lists, the flush guarantee of write, the         *)
(* description of forceClose).  The model is the most general accessor     *)
(* that documentation allows, over a medium that is a sequence of bytes:   *)
(* a write may be flushed at once or held back, close() may delay the      *)
(* writing, and openForRead, forceClose and the destructor flush.          *)
(***************************************************************************)
EXTENDS Integers, Sequences, FiniteSets, TLC

\* ------------------------------------------------------------- bounds
MaxLen == 3

\* ------------------------------------------------- SettingsFileResult
\* enum { EndOfFile = -1, Success = 0, InvalidState, IOError }: an
\* enumerator without initialiser is the one before it plus one.
Success == 0
InvalidState == Success + 1
IOError == InvalidState + 1

EndOfFile_Last == IOError + 1

EndOfFile == -1

\* --------------------------------------------------------- FileStatus
FileClosed == 0
FileOpenedForRead == 1
FileOpenedForWrite == 2

NewLine == "\n"
Byte == {"a", NewLine}

SeqUpTo(n) == UNION {[1..k -> Byte] : k \in 0..n}

\* The strings handed to write(const std::string&).
Data == SeqUpTo(2)

VARIABLES
    alive,          \* the accessor object exists (constructed, not destroyed)
    mode,           \* FileStatus of the accessor
    cursor,         \* number of bytes of the medium consumed by this read session
    pendingWrites,  \* bytes accepted by write and not yet on the medium
    medium,         \* the bytes of the underlying file
    result,         \* SettingsFileResult returned by the last call
    status,         \* FileStatus returned by the last getOpenState()
    out,            \* bytes the last call stored through its out-parameter
    lastOp,         \* history: the last operation called
    fault,          \* history: the medium failed during the last call
    prev,           \* history: the accessor and medium before the last call
    established,    \* history: mode set by the last successful transition
    initial,        \* history: content of the medium before the first call
    accepted,       \* history: every byte a Success-returning write accepted
    got,            \* history: the non-empty buffers this read session delivered
    clean,          \* history: no medium fault in this read session
    reported        \* history: a call on this accessor returned IOError

vars == <<alive, mode, cursor, pendingWrites, medium, result, status, out,
          lastOp, fault, prev, established, initial, accepted, got,
          clean, reported>>

St == [mode |-> mode, cursor |-> cursor,
       pendingWrites |-> pendingWrites, medium |-> medium]

Flush_DropsBytes(s) == [s EXCEPT !.pendingWrites = <<>>]

\* Transfer of the buffered bytes to the medium, in write order.
Flush(s) == [s EXCEPT !.medium = s.medium \o s.pendingWrites,
                      !.pendingWrites = <<>>]

Ret(s, r) == [st |-> s, result |-> r]
RetOut(s, r, o) == [st |-> s, result |-> r, out |-> o]

\* ------------------------------------------------------------ opening
\* Success from FileClosed, InvalidState when already open.  The changes of
\* an earlier write session are saved before the file is opened for read.
openForRead_NoFlush(s) ==
    IF s.mode = FileClosed
    THEN Ret([s EXCEPT !.mode = FileOpenedForRead, !.cursor = 0], Success)
    ELSE Ret(s, InvalidState)

openForRead_FromWrite(s) ==
    IF s.mode # FileOpenedForRead
    THEN Ret([Flush(s) EXCEPT !.mode = FileOpenedForRead, !.cursor = 0], Success)
    ELSE Ret(s, InvalidState)

openForRead(s) ==
    IF s.mode = FileClosed
    THEN Ret([Flush(s) EXCEPT !.mode = FileOpenedForRead, !.cursor = 0], Success)
    ELSE Ret(s, InvalidState)

openForWrite_ReopensFromRead(s) ==
    IF s.mode # FileOpenedForWrite
    THEN Ret([s EXCEPT !.mode = FileOpenedForWrite], Success)
    ELSE Ret(s, InvalidState)

openForWrite(s) ==
    IF s.mode = FileClosed
    THEN Ret([s EXCEPT !.mode = FileOpenedForWrite], Success)
    ELSE Ret(s, InvalidState)

\* ------------------------------------------------------------ reading
\* A medium fault met after k bytes were consumed: IOError, the bytes
\* consumed so far are the only ones the cursor has passed.
readFault(s, k) ==
    RetOut([s EXCEPT !.cursor = @ + k], IOError, <<>>)

readLineFault(s, k) ==
    RetOut([s EXCEPT !.cursor = @ + k], IOError,
           SubSeq(s.medium, s.cursor + 1, s.cursor + k))

read_OnlyClosedRejected(s, f, k) ==
    IF s.mode = FileClosed THEN RetOut(s, InvalidState, <<>>)
    ELSE IF f THEN readFault(s, k)
    ELSE IF s.cursor >= Len(s.medium) THEN RetOut(s, EndOfFile, <<>>)
    ELSE RetOut([s EXCEPT !.cursor = @ + 1], Success, <<s.medium[s.cursor + 1]>>)

read_NoAdvance(s, f, k) ==
    IF s.mode # FileOpenedForRead THEN RetOut(s, InvalidState, <<>>)
    ELSE IF f THEN readFault(s, k)
    ELSE IF s.cursor >= Len(s.medium) THEN RetOut(s, EndOfFile, <<>>)
    ELSE RetOut(s, Success, <<s.medium[s.cursor + 1]>>)

read(s, f, k) ==
    IF s.mode # FileOpenedForRead THEN RetOut(s, InvalidState, <<>>)
    ELSE IF f THEN readFault(s, k)
    ELSE IF s.cursor >= Len(s.medium) THEN RetOut(s, EndOfFile, <<>>)
    ELSE RetOut([s EXCEPT !.cursor = @ + 1], Success, <<s.medium[s.cursor + 1]>>)

\* The bytes from position c + 1 of m up to and including the next newline,
\* or up to the end of m when no newline follows, collected one at a time.
RECURSIVE Line_DropsNewLine(_, _, _)
Line_DropsNewLine(m, c, acc) ==
    IF c >= Len(m) THEN acc
    ELSE IF m[c + 1] = NewLine THEN acc
    ELSE Line_DropsNewLine(m, c + 1, Append(acc, m[c + 1]))

RECURSIVE Line(_, _, _)
Line(m, c, acc) ==
    IF c >= Len(m) THEN acc
    ELSE IF m[c + 1] = NewLine THEN Append(acc, m[c + 1])
    ELSE Line(m, c + 1, Append(acc, m[c + 1]))

EndsWithNewLine(l) == Len(l) > 0 /\ l[Len(l)] = NewLine

readLine_EofLosesPartial(s, f, k) ==
    IF s.mode # FileOpenedForRead THEN RetOut(s, InvalidState, <<>>)
    ELSE IF f THEN readLineFault(s, k)
    ELSE LET l == Line(s.medium, s.cursor, <<>>) IN
         RetOut([s EXCEPT !.cursor = @ + Len(l)],
                IF EndsWithNewLine(l) THEN Success ELSE EndOfFile,
                IF EndsWithNewLine(l) THEN l ELSE <<>>)

readLine(s, f, k) ==
    IF s.mode # FileOpenedForRead THEN RetOut(s, InvalidState, <<>>)
    ELSE IF f THEN readLineFault(s, k)
    ELSE LET l == Line(s.medium, s.cursor, <<>>) IN
         RetOut([s EXCEPT !.cursor = @ + Len(l)],
                IF EndsWithNewLine(l) THEN Success ELSE EndOfFile, l)

\* ------------------------------------------------------------ writing
\* The medium rejected the append: nothing is accepted, the bytes accepted
\* before stay where they are.
writeFault_DropsPending(s) == Ret([s EXCEPT !.pendingWrites = <<>>], IOError)

writeFault(s) == Ret(s, IOError)

\* write(char): the byte is accepted into pendingWrites; the actual writing
\* may happen at once (early) or be delayed.
write(s, b, f, early) ==
    IF s.mode # FileOpenedForWrite THEN Ret(s, InvalidState)
    ELSE IF f THEN writeFault(s)
    ELSE LET t == [s EXCEPT !.pendingWrites = Append(@, b)] IN
         Ret(IF early THEN Flush(t) ELSE t, Success)

writeData_Prepends(s, data, f, early) ==
    IF s.mode # FileOpenedForWrite THEN Ret(s, InvalidState)
    ELSE IF f THEN writeFault(s)
    ELSE LET t == [s EXCEPT !.pendingWrites = data \o @] IN
         Ret(IF early THEN Flush(t) ELSE t, Success)

\* write(const std::string&)
writeData(s, data, f, early) ==
    IF s.mode # FileOpenedForWrite THEN Ret(s, InvalidState)
    ELSE IF f THEN writeFault(s)
    ELSE LET t == [s EXCEPT !.pendingWrites = @ \o data] IN
         Ret(IF early THEN Flush(t) ELSE t, Success)

\* ------------------------------------------------------------ closing
\* close() reports Success for an open file and InvalidState for a closed
\* one, and nothing else.  It may delay the writing to disk; a flush the
\* medium refuses (f, possible only when there are bytes to flush and the
\* flush is attempted) leaves the bytes buffered like a delayed one.
close_KeepsMode(s, f, delay) ==
    IF s.mode = FileClosed THEN Ret(s, InvalidState)
    ELSE IF s.mode = FileOpenedForRead
    THEN Ret(s, Success)
    ELSE Ret([(IF f \/ delay THEN s ELSE Flush(s)) EXCEPT !.mode = FileClosed],
             Success)

close_DropsDelayed(s, f, delay) ==
    IF s.mode = FileClosed THEN Ret(s, InvalidState)
    ELSE IF s.mode = FileOpenedForRead
    THEN Ret([s EXCEPT !.mode = FileClosed, !.cursor = 0], Success)
    ELSE Ret([(IF f \/ delay THEN s ELSE Flush(s))
                 EXCEPT !.mode = FileClosed,
                        !.pendingWrites = IF delay THEN <<>> ELSE @], Success)

close_DropsOnFault(s, f, delay) ==
    IF s.mode = FileClosed THEN Ret(s, InvalidState)
    ELSE IF s.mode = FileOpenedForRead
    THEN Ret([s EXCEPT !.mode = FileClosed, !.cursor = 0], Success)
    ELSE Ret([(IF f \/ delay THEN s ELSE Flush(s))
                 EXCEPT !.mode = FileClosed,
                        !.pendingWrites = IF f THEN <<>> ELSE @], Success)

close_ReportsIOError(s, f, delay) ==
    IF s.mode = FileClosed THEN Ret(s, InvalidState)
    ELSE IF s.mode = FileOpenedForRead
    THEN Ret([s EXCEPT !.mode = FileClosed, !.cursor = 0], Success)
    ELSE IF f THEN Ret(s, IOError)
    ELSE Ret([(IF delay THEN s ELSE Flush(s)) EXCEPT !.mode = FileClosed],
             Success)

close_ClosedSucceeds(s, f, delay) ==
    IF s.mode = FileOpenedForWrite
    THEN Ret([(IF f \/ delay THEN s ELSE Flush(s)) EXCEPT !.mode = FileClosed],
             Success)
    ELSE Ret([s EXCEPT !.mode = FileClosed, !.cursor = 0], Success)

close(s, f, delay) ==
    IF s.mode = FileClosed THEN Ret(s, InvalidState)
    ELSE IF s.mode = FileOpenedForRead
    THEN Ret([s EXCEPT !.mode = FileClosed, !.cursor = 0], Success)
    ELSE Ret([(IF f \/ delay THEN s ELSE Flush(s)) EXCEPT !.mode = FileClosed],
             Success)

getOpenState(s) == s.mode

forceClose_NoFlush(s) ==
    [s EXCEPT !.pendingWrites = <<>>, !.mode = FileClosed, !.cursor = 0]

\* Write to disk any pending data and close the file if opened.
forceClose(s) == [Flush(s) EXCEPT !.mode = FileClosed, !.cursor = 0]

destructor_NoFlush(s) ==
    [s EXCEPT !.pendingWrites = <<>>, !.mode = FileClosed, !.cursor = 0]

\* The destructor of an implementation saves the changes (the base class
\* destructor itself is defaulted).
destructor(s) ==
    [s EXCEPT !.medium = s.medium \o s.pendingWrites, !.pendingWrites = <<>>,
              !.mode = FileClosed, !.cursor = 0]

\* ------------------------------------------------------------ actions
Init ==
    /\ alive = TRUE
    /\ mode = FileClosed
    /\ cursor = 0
    /\ pendingWrites = <<>>
    /\ medium \in SeqUpTo(1)
    /\ result = Success
    /\ status = FileClosed
    /\ out = <<>>
    /\ lastOp = "construct"
    /\ fault = FALSE
    /\ prev = St
    /\ established = FileClosed
    /\ initial = medium
    /\ accepted = <<>>
    /\ got = <<>>
    /\ clean = TRUE
    /\ reported = FALSE

\* The accessor and the medium after a call that left them as s.
Becomes(s) ==
    /\ mode' = s.mode
    /\ cursor' = s.cursor
    /\ pendingWrites' = s.pendingWrites
    /\ medium' = s.medium

Called(op, f, o) ==
    /\ alive
    /\ lastOp' = op
    /\ fault' = f
    /\ prev' = St
    /\ out' = o
    /\ UNCHANGED <<alive, initial>>

Room(n) == Len(medium) + Len(pendingWrites) + n <= MaxLen

OpenForRead ==
    LET r == openForRead(St) IN
    /\ Called("openForRead", FALSE, <<>>)
    /\ Becomes(r.st)
    /\ result' = r.result
    /\ reported' = (reported \/ r.result = IOError)
    /\ established' = IF r.result = Success THEN FileOpenedForRead ELSE established
    /\ got' = IF r.result = Success THEN <<>> ELSE got
    /\ clean' = IF r.result = Success THEN TRUE ELSE clean
    /\ UNCHANGED <<status, accepted>>

OpenForWrite ==
    LET r == openForWrite(St) IN
    /\ Called("openForWrite", FALSE, <<>>)
    /\ Becomes(r.st)
    /\ result' = r.result
    /\ reported' = (reported \/ r.result = IOError)
    /\ established' = IF r.result = Success THEN FileOpenedForWrite ELSE established
    /\ UNCHANGED <<status, accepted, got, clean>>

Read ==
    \E f \in BOOLEAN :
    \E k \in 0..(IF f /\ cursor < Len(medium) THEN 1 ELSE 0) :
    LET r == read(St, f, k) IN
    /\ Called("read", f, r.out)
    /\ Becomes(r.st)
    /\ result' = r.result
    /\ reported' = (reported \/ r.result = IOError)
    /\ got' = IF r.result = Success THEN Append(got, r.out) ELSE got
    /\ clean' = (clean /\ r.result # IOError)
    /\ UNCHANGED <<status, established, accepted>>

ReadLine ==
    \E f \in BOOLEAN :
    \E k \in 0..(IF f THEN Len(Line(medium, cursor, <<>>)) ELSE 0) :
    LET r == readLine(St, f, k) IN
    /\ Called("readLine", f, r.out)
    /\ Becomes(r.st)
    /\ result' = r.result
    /\ reported' = (reported \/ r.result = IOError)
    /\ got' = IF r.result \in {Success, EndOfFile} /\ r.out # <<>>
              THEN Append(got, r.out) ELSE got
    /\ clean' = (clean /\ r.result # IOError)
    /\ UNCHANGED <<status, established, accepted>>

Write ==
    \E b \in Byte, f \in BOOLEAN, early \in BOOLEAN :
    LET r == write(St, b, f, early) IN
    /\ f => ~early
    /\ mode = FileOpenedForWrite => Room(1)
    /\ Called("write", f, <<>>)
    /\ Becomes(r.st)
    /\ result' = r.result
    /\ reported' = (reported \/ r.result = IOError)
    /\ accepted' = IF r.result = Success THEN Append(accepted, b) ELSE accepted
    /\ UNCHANGED <<status, established, got, clean>>

WriteData ==
    \E data \in Data, f \in BOOLEAN, early \in BOOLEAN :
    LET r == writeData(St, data, f, early) IN
    /\ f => ~early
    /\ mode = FileOpenedForWrite => Room(Len(data))
    /\ Called("writeData", f, <<>>)
    /\ Becomes(r.st)
    /\ result' = r.result
    /\ reported' = (reported \/ r.result = IOError)
    /\ accepted' = IF r.result = Success THEN accepted \o data ELSE accepted
    /\ UNCHANGED <<status, established, got, clean>>

Close ==
    \E f \in BOOLEAN, delay \in BOOLEAN :
    LET r == close(St, f, delay) IN
    /\ f => (mode = FileOpenedForWrite /\ pendingWrites # <<>> /\ ~delay)
    /\ Called("close", f, <<>>)
    /\ Becomes(r.st)
    /\ result' = r.result
    /\ reported' = (reported \/ r.result = IOError)
    /\ established' = IF r.result = Success THEN FileClosed ELSE established
    /\ got' = IF mode = FileOpenedForRead THEN <<>> ELSE got
    /\ clean' = IF mode = FileOpenedForRead THEN TRUE ELSE clean
    /\ UNCHANGED <<status, accepted>>

GetOpenState_Closes ==
    /\ Called("getOpenState", FALSE, <<>>)
    /\ status' = getOpenState(St)
    /\ Becomes(forceClose(St))
    /\ UNCHANGED <<result, established, reported, accepted, got, clean>>

GetOpenState ==
    /\ Called("getOpenState", FALSE, <<>>)
    /\ status' = getOpenState(St)
    /\ UNCHANGED <<mode, cursor, pendingWrites, medium, result, established,
                   reported,
                   accepted, got, clean>>

ForceClose ==
    /\ Called("forceClose", FALSE, <<>>)
    /\ Becomes(forceClose(St))
    /\ established' = FileClosed
    /\ got' = <<>>
    /\ clean' = TRUE
    /\ UNCHANGED <<result, status, accepted, reported>>

\* The accessor goes out of scope.
Destroy ==
    /\ alive
    /\ alive' = FALSE
    /\ lastOp' = "destroy"
    /\ fault' = FALSE
    /\ prev' = St
    /\ Becomes(destructor(St))
    /\ established' = FileClosed
    /\ got' = <<>>
    /\ clean' = TRUE
    /\ out' = <<>>
    /\ UNCHANGED <<result, status, initial, accepted, reported>>

\* A fresh accessor is created for the same file.
Construct ==
    /\ ~alive
    /\ alive' = TRUE
    /\ lastOp' = "construct"
    /\ fault' = FALSE
    /\ prev' = St
    /\ mode' = FileClosed
    /\ cursor' = 0
    /\ pendingWrites' = <<>>
    /\ established' = FileClosed
    /\ out' = <<>>
    /\ reported' = FALSE
    /\ UNCHANGED <<medium, result, status, initial, accepted, got, clean>>

Next ==
    \/ OpenForRead
    \/ OpenForWrite
    \/ Read
    \/ ReadLine
    \/ Write
    \/ WriteData
    \/ Close
    \/ GetOpenState
    \/ ForceClose
    \/ Destroy
    \/ Construct

Spec == Init /\ [][Next]_vars

\* ------------------------------------------------------------- claims
RECURSIVE Concat(_)
Concat(chunks) ==
    IF chunks = <<>> THEN <<>> ELSE Head(chunks) \o Concat(Tail(chunks))

Modes == {FileClosed, FileOpenedForRead, FileOpenedForWrite}
OnMedium == initial \o accepted
ReadOps == {"read", "readLine"}
WriteOps == {"write", "writeData"}
OpenOps == {"openForRead", "openForWrite"}

\* C1: the accessor is in exactly one of the three modes, and getOpenState()
\* gives the mode established by the last successful transition (FileClosed
\* when none has succeeded yet).
C1_ModeIsLastTransition ==
    /\ mode \in Modes
    /\ ~(mode = FileOpenedForRead /\ mode = FileOpenedForWrite)
    /\ getOpenState(St) = established
    /\ (alive /\ lastOp = "getOpenState") => status = established

C1_Witness ==
    /\ lastOp = "getOpenState"
    /\ status = FileOpenedForWrite
    /\ result = InvalidState

\* C2: openForRead and openForWrite return Success only from FileClosed;
\* called on an open accessor they return InvalidState and leave the mode,
\* the cursor, pendingWrites and the medium as they were.
C2_OpenOnlyFromClosed ==
    lastOp \in OpenOps =>
        /\ (result = Success) <=> (prev.mode = FileClosed)
        /\ prev.mode # FileClosed => (result = InvalidState /\ St = prev)
        /\ result = Success =>
               mode = (IF lastOp = "openForRead" THEN FileOpenedForRead
                       ELSE FileOpenedForWrite)

C2_Witness ==
    /\ lastOp = "openForWrite"
    /\ prev.mode = FileOpenedForRead
    /\ prev.cursor > 0
    /\ result = InvalidState

\* C3: read and readLine outside FileOpenedForRead, and write outside
\* FileOpenedForWrite, return InvalidState and change nothing.
C3_WrongModeChangesNothing ==
    (\/ lastOp \in ReadOps /\ prev.mode # FileOpenedForRead
     \/ lastOp \in WriteOps /\ prev.mode # FileOpenedForWrite)
        => (result = InvalidState /\ St = prev /\ out = <<>>)

C3_Witness ==
    /\ lastOp = "read"
    /\ prev.mode = FileOpenedForWrite
    /\ prev.pendingWrites # <<>>
    /\ Len(prev.medium) > 0
    /\ result = InvalidState

C6_DestructorFlushes ==
    /\ lastOp = "destroy" =>
           (medium = forceClose(prev).medium /\ medium = OnMedium)
    /\ (lastOp = "construct" \/ ~alive) =>
           (medium = OnMedium /\ pendingWrites = <<>>)

C6_Witness ==
    /\ lastOp = "destroy"
    /\ ~alive
    /\ prev.mode = FileOpenedForWrite
    /\ prev.pendingWrites # <<>>

IsLine(l) ==
    /\ EndsWithNewLine(l)
    /\ \A i \in 1..(Len(l) - 1) : l[i] # NewLine

\* C7: round trip.  In a read session without medium fault the medium holds
\* the initial content followed by every written byte, the buffers delivered
\* so far concatenate to the medium up to the cursor, every buffer readLine
\* delivers with Success is one newline-terminated line, readLine returns
\* EndOfFile only when everything has been delivered, and once all bytes are
\* consumed a further read or readLine returns EndOfFile.
C7_RoundTrip ==
    (mode = FileOpenedForRead /\ clean) =>
        /\ pendingWrites = <<>>
        /\ medium = OnMedium
        /\ Concat(got) = SubSeq(medium, 1, cursor)
        /\ (lastOp = "readLine" /\ result = Success) =>
               (IsLine(out) /\ got # <<>> /\ got[Len(got)] = out)
        /\ (lastOp = "readLine" /\ result = EndOfFile) =>
               (cursor = Len(medium) /\ Concat(got) = OnMedium)
        /\ (lastOp \in ReadOps /\ prev.mode = FileOpenedForRead
                /\ prev.cursor = Len(prev.medium)) =>
               (result = EndOfFile /\ out = <<>> /\ Concat(got) = OnMedium)

C7_Witness ==
    /\ initial = <<>>
    /\ accepted = <<"a", NewLine, NewLine>>
    /\ mode = FileOpenedForRead
    /\ got = << <<"a", NewLine>>, <<NewLine>> >>
    /\ lastOp = "read"
    /\ result = EndOfFile

\* C8: readLine in FileOpenedForRead (no medium fault) returns Success exactly
\* when the buffer ends in a newline, the cursor then being just past that
\* newline, the first one after the old cursor; otherwise it returns
\* EndOfFile and the buffer holds every byte from the old cursor to the end.
C8_ReadLine ==
    (lastOp = "readLine" /\ prev.mode = FileOpenedForRead /\ ~fault) =>
        /\ result \in {Success, EndOfFile}
        /\ (result = Success) <=> EndsWithNewLine(out)
        /\ out = SubSeq(prev.medium, prev.cursor + 1, cursor)
        /\ medium = prev.medium /\ mode = FileOpenedForRead
        /\ result = Success => IsLine(out)
        /\ result = EndOfFile =>
               /\ cursor = Len(medium)
               /\ \A i \in (prev.cursor + 1)..Len(medium) : medium[i] # NewLine

C8_Witness ==
    /\ lastOp = "readLine"
    /\ ~fault
    /\ result = EndOfFile
    /\ prev.cursor = 2
    /\ medium = <<"a", NewLine, "a">>
    /\ out = <<"a">>

\* C9: a Success-returning read delivers the byte at the cursor and advances
\* the cursor by one; at the end of the data read returns EndOfFile and the
\* cursor stays; no read or readLine of a read session moves the cursor back.
C9_Read ==
    /\ (lastOp = "read" /\ prev.mode = FileOpenedForRead /\ ~fault) =>
           /\ prev.cursor < Len(prev.medium) =>
                  /\ result = Success
                  /\ out = <<prev.medium[prev.cursor + 1]>>
                  /\ cursor = prev.cursor + 1
           /\ prev.cursor >= Len(prev.medium) =>
                  (result = EndOfFile /\ out = <<>> /\ cursor = prev.cursor)
    /\ (lastOp = "read" /\ result = Success) =>
           (cursor = prev.cursor + 1 /\ out = <<prev.medium[cursor]>>)
    /\ (lastOp \in ReadOps /\ prev.mode = FileOpenedForRead) =>
           /\ mode = FileOpenedForRead
           /\ medium = prev.medium
           /\ prev.cursor <= cursor /\ cursor <= Len(medium)

C9_Witness ==
    /\ lastOp = "read"
    /\ result = Success
    /\ prev.cursor = 1
    /\ cursor = 2
    /\ out = <<NewLine>>

C14_ReadSeesAllWrites ==
    /\ (lastOp = "openForRead" /\ result = Success) =>
           /\ medium = prev.medium \o prev.pendingWrites
           /\ medium = OnMedium
           /\ cursor = 0
    /\ mode = FileOpenedForRead => (pendingWrites = <<>> /\ medium = OnMedium)

C14_Witness ==
    /\ lastOp = "readLine"
    /\ result = Success
    /\ cursor = Len(initial) + Len(accepted)
    /\ Len(accepted) > 1
    /\ Len(prev.medium) = cursor

\* The operations that return a SettingsFileResult.
ResultOps == OpenOps \cup ReadOps \cup WriteOps \cup {"close"}

\* C15: openForRead, openForWrite and close return only Success or
\* InvalidState; write returns only Success, InvalidState or IOError;
\* EndOfFile is returned only by read and readLine.
C15_ResultKinds ==
    /\ lastOp \in OpenOps \cup {"close"} => result \in {Success, InvalidState}
    /\ lastOp \in WriteOps => result \in {Success, InvalidState, IOError}
    /\ lastOp \in ReadOps =>
           result \in {Success, EndOfFile, InvalidState, IOError}
    /\ (lastOp \in ResultOps /\ result = EndOfFile) => lastOp \in ReadOps

C15_Witness ==
    /\ lastOp = "close"
    /\ fault
    /\ result = Success
    /\ reported
    /\ Len(pendingWrites) = 1

\* C16: close() called in FileOpenedForRead or FileOpenedForWrite returns
\* Success and leaves the mode FileClosed; called in FileClosed it returns
\* InvalidState and changes nothing.
C16_Close ==
    lastOp = "close" =>
        /\ prev.mode \in {FileOpenedForRead, FileOpenedForWrite} =>
               (result = Success /\ mode = FileClosed)
        /\ prev.mode = FileClosed => (result = InvalidState /\ St = prev)

C16_Witness ==
    /\ lastOp = "close"
    /\ prev.mode = FileClosed
    /\ prev.pendingWrites # <<>>
    /\ result = InvalidState

\* C17: getOpenState() can be called in every mode, returns the mode, and
\* changes neither the mode, the cursor, pendingWrites nor the medium.
C17_GetOpenStateIsPure ==
    /\ alive => ENABLED GetOpenState
    /\ lastOp = "getOpenState" => (St = prev /\ status = prev.mode)

C17_Witness ==
    /\ lastOp = "getOpenState"
    /\ status = FileOpenedForRead
    /\ cursor > 0
    /\ mode = FileOpenedForRead

\* C18: no call changes the mode from FileOpenedForRead to FileOpenedForWrite
\* or back: whenever a call changes the mode, the mode before it or the mode
\* after it is FileClosed.
C18_ModeChangesThroughClosed ==
    mode # prev.mode => (mode = FileClosed \/ prev.mode = FileClosed)

C18_Witness ==
    /\ lastOp = "openForRead"
    /\ result = Success
    /\ prev.mode = FileClosed
    /\ prev.pendingWrites = <<>>
    /\ mode = FileOpenedForRead
    /\ Len(accepted) = 3

\* write(char) called for each byte of data in turn, nothing flushed early.
RECURSIVE WriteEach(_, _)
WriteEach(s, data) ==
    IF data = <<>> THEN s
    ELSE WriteEach(write(s, Head(data), FALSE, FALSE).st, Tail(data))

\* The bytes the last Success-returning write call accepted.
LastData ==
    SubSeq(medium \o pendingWrites,
           Len(prev.medium) + Len(prev.pendingWrites) + 1,
           Len(medium) + Len(pendingWrites))

\* C19: in FileOpenedForWrite, write(data) leaves pendingWrites, and the
\* medium once flushed, as the write(byte) calls for the bytes of data in
\* order do; write of the empty string leaves pendingWrites unchanged.
C19_WriteDataIsWriteEach ==
    /\ mode = FileOpenedForWrite =>
           \A data \in Data :
               /\ writeData(St, data, FALSE, FALSE).st = WriteEach(St, data)
               /\ Flush(writeData(St, data, FALSE, TRUE).st)
                      = Flush(WriteEach(St, data))
    /\ mode = FileOpenedForWrite =>
           writeData(St, <<>>, FALSE, FALSE).st = St
    /\ (lastOp = "writeData" /\ result = Success) =>
           Flush(St) = Flush(WriteEach(prev, LastData))

C19_Witness ==
    /\ lastOp = "writeData"
    /\ result = Success
    /\ Len(prev.pendingWrites) = 1
    /\ pendingWrites = prev.pendingWrites \o <<NewLine, "a">>

\* The last call was made in a mode that does not allow it.
Rejected ==
    \/ lastOp \in OpenOps /\ prev.mode # FileClosed
    \/ lastOp \in ReadOps /\ prev.mode # FileOpenedForRead
    \/ lastOp \in WriteOps /\ prev.mode # FileOpenedForWrite
    \/ lastOp = "close" /\ prev.mode = FileClosed

\* C20: the result codes are Success = 0, EndOfFile = -1, InvalidState = 1
\* and IOError = 2, so a returned code is > 0 exactly for the two failure
\* kinds (the call was rejected or the medium failed in a read or a write)
\* and <= 0 exactly for Success and EndOfFile.
C20_ResultCodes ==
    /\ Success = 0 /\ EndOfFile = -1 /\ InvalidState = 1 /\ IOError = 2
    /\ (result > 0) <=> (result \in {InvalidState, IOError})
    /\ (result <= 0) <=> (result \in {Success, EndOfFile})
    /\ (result < 0) <=> (result = EndOfFile)
    /\ lastOp \in ResultOps =>
           ((result > 0) <=> (Rejected \/ (fault /\ lastOp # "close")))

C20_Witness ==
    /\ lastOp = "read"
    /\ result = IOError
    /\ result > 0
    /\ cursor = prev.cursor + 1
=============================================================================
